---- MODULE Spec2Model ----
(***************************************************************************)
(* Model of the interactive selection tree of flux-context:               *)
(* src/src/ui/state.rs (App, UiNode), driven by the input loop of          *)
(* src/src/ui/mod.rs, of the scanner that produces its record list,        *)
(* FsScanner::scan of src/src/adapters/fs_scanner.rs, and of the way main  *)
(* (src/src/main.rs) takes the outcome of the session to the reading phase.*)
(*                                                                         *)
(* Conventions.  Vec indices are 0-based as in the source; At(s, i) reads  *)
(* element i of a Vec.  Option<usize> is None == <<>> or Some(i) == <<i>>. *)
(* A path is the sequence of its components; a component (file name) is    *)
(* the sequence of its bytes, so "a" is <<97>>.                            *)
(***************************************************************************)
EXTENDS Integers, Sequences, FiniteSets, TLC

VARIABLES
    files,          \* main's `files`: the scan output handed to App::new
    pc,             \* "new": App::new not yet run; "run": App built; "panicked";
                    \* "reading": main's phase 2; "done"; "exit": main returned
    nodes,          \* App.nodes : Vec<UiNode>
    root_indices,   \* App.root_indices : Vec<usize>
    list_state,     \* App.list_state.selected() : Option<usize>
    view_items,     \* App.view_items : Vec<usize>
    should_quit,    \* App.should_quit
    confirmed,      \* App.confirmed
    tree,           \* the directory tree on disk that FsScanner::scan walks
    config,         \* the &ContextConfig handed to scan
    walk,           \* items the walker built by scan has still to yield
    found,          \* scan's local `files` : Vec<FileNode>
    scan_pc,        \* "idle": scan not called; "walk": in the for loop; "done"
    returned,       \* what the last finished call of scan returned
    earlier,        \* what the call before that returned
    tui_result,     \* what run_tui returned to main, None before it returns
    read            \* the records main gave to the reader, None before that

main_vars == <<tui_result, read>>

scan_vars == <<tree, config, walk, found, scan_pc, returned, earlier>>

vars == <<files, pc, nodes, root_indices, list_state, view_items,
          should_quit, confirmed, scan_vars, main_vars>>

----------------------------------------------------------------------------
(* Bounds of the model *)

\* largest number of tree nodes (distinct path prefixes) of an input list
MaxNodes == 5
\* largest length of a record list given to App::new directly
MaxFiles == 3
\* largest number of components of a path in such a list
MaxComponents == 2
\* cap on the cursor when it runs away on an empty view (wrapping build)
MaxCursor == 2

\* file names: "a", "b"
Names == {<<97>>, <<98>>}
\* the scan root: "r"
RootPath == << <<114>> >>

----------------------------------------------------------------------------
(* Option and Vec helpers *)

None == <<>>
Some(i) == <<i>>
Unwrap(o) == o[1]
At(s, i) == s[i + 1]
Indices(s) == 0 .. (Len(s) - 1)
Elems(s) == {s[k] : k \in 1 .. Len(s)}

RECURSIVE SeqsOfLen(_, _)
SeqsOfLen(S, k) ==
    IF k = 0 THEN {<<>>}
    ELSE {Append(s, x) : s \in SeqsOfLen(S, k - 1), x \in S}

IsPrefix(p, q) == Len(p) <= Len(q) /\ SubSeq(q, 1, Len(p)) = p
IsProperPrefix(p, q) == Len(p) < Len(q) /\ SubSeq(q, 1, Len(p)) = p
\* the non-empty prefixes of a path: the path keys App::new walks through
Prefixes(p) == {SubSeq(p, 1, k) : k \in 1 .. Len(p)}

----------------------------------------------------------------------------
(* Ordering of paths: PathBuf::cmp compares component by component, and    *)
(* two components byte by byte.                                            *)

BytesLess(x, y) ==
    \E k \in 1 .. (Len(y)) :
        /\ k <= Len(x) + 1
        /\ \A j \in 1 .. (k - 1) : x[j] = y[j]
        /\ (k = Len(x) + 1 \/ x[k] < y[k])

PathLess(p, q) ==
    \E k \in 1 .. (Len(q)) :
        /\ k <= Len(p) + 1
        /\ \A j \in 1 .. (k - 1) : p[j] = q[j]
        /\ (k = Len(p) + 1 \/ BytesLess(p[k], q[k]))

----------------------------------------------------------------------------
(* The record lists *)

\* FileNode::new(path_buf, relative_path) as scan builds it: the entry's path
\* is the root joined with the path below the root, and strip_prefix(root)
\* gives the latter back.
FileNode(relative) == [path |-> RootPath \o relative, relative_path |-> relative]

NodeKeys(paths) == UNION {Prefixes(paths[k]) : k \in 1 .. Len(paths)}

AllPaths == UNION {SeqsOfLen(Names, k) : k \in 0 .. MaxNodes}
NonEmptyPaths == AllPaths \ {<<>>}

\* What scan returns for a directory root: regular files below the root,
\* sorted by relative path (strictly: a file system holds a path once), no
\* path being both a file and a directory above another file.
CanFollow(paths, p) ==
    /\ paths # <<>> =>
          /\ PathLess(paths[Len(paths)], p)
          /\ \A k \in 1 .. Len(paths) :
                ~IsPrefix(paths[k], p) /\ ~IsPrefix(p, paths[k])
    /\ Cardinality(NodeKeys(Append(paths, p))) <= MaxNodes

RECURSIVE ScanPathsOfLen(_)
ScanPathsOfLen(k) ==
    IF k = 0 THEN {<<>>}
    ELSE {Append(x[1], x[2]) :
            x \in {y \in ScanPathsOfLen(k - 1) \X NonEmptyPaths :
                      CanFollow(y[1], y[2])}}

ToFiles(paths) == [k \in 1 .. Len(paths) |-> FileNode(paths[k])]

ScanOutputs(n) ==
    {ToFiles(paths) : paths \in UNION {ScanPathsOfLen(k) : k \in 0 .. n}}

\* Any list a caller of the public App::new can pass: any order, repeated
\* paths, a path that is a file and a directory prefix, the empty path.
ShortPaths == UNION {SeqsOfLen(Names, k) : k \in 0 .. MaxComponents}

AnyLists(n) ==
    {ToFiles(paths) : paths \in UNION {SeqsOfLen(ShortPaths, k) : k \in 0 .. n}}

----------------------------------------------------------------------------
(* App::new: the tree build *)

\* mutant of ContainsKey: the lookup never finds the key
ContainsKeyNever(ns, current_path) == FALSE

\* path_to_index.contains_key(&current_path): every pushed node is inserted
\* under its path, so the map's keys are the paths of the nodes pushed so far
ContainsKey(ns, current_path) ==
    \E k \in 1 .. Len(ns) : ns[k].path = current_path

\* path_to_index[&current_path]: the index inserted (last) under the key
IndexOfPath(ns, current_path) ==
    (CHOOSE k \in 1 .. Len(ns) :
        /\ ns[k].path = current_path
        /\ \A j \in (k + 1) .. Len(ns) : ns[j].path # current_path) - 1

\* mutant of NewUiNode: directories start collapsed
NewUiNodeCollapsed(current_path, relative, component) ==
    [path     |-> current_path,
     name     |-> component,
     is_dir   |-> current_path # relative,
     expanded |-> current_path = relative,
     selected |-> TRUE,
     depth    |-> Len(current_path) - 1,
     children |-> <<>>]

\* mutant of NewUiNode: every node is created as a directory
NewUiNodeAllDirs(current_path, relative, component) ==
    [path     |-> current_path,
     name     |-> component,
     is_dir   |-> TRUE,
     expanded |-> TRUE,
     selected |-> TRUE,
     depth    |-> Len(current_path) - 1,
     children |-> <<>>]

\* the UiNode literal
NewUiNode(current_path, relative, component) ==
    [path     |-> current_path,
     name     |-> component,
     is_dir   |-> current_path # relative,
     expanded |-> TRUE,
     selected |-> TRUE,
     depth    |-> Len(current_path) - 1,
     children |-> <<>>]

\* mutant of PushNode: the index is put at the front of the list
PushNodeFront(st, node, parent_idx) ==
    LET idx == Len(st.nodes)
        pushed == Append(st.nodes, node)
    IN  IF parent_idx # None
        THEN [nodes |-> [pushed EXCEPT
                            ![Unwrap(parent_idx) + 1].children = <<idx>> \o @,
                            ![Unwrap(parent_idx) + 1].is_dir = TRUE],
              root_indices |-> st.root_indices]
        ELSE [nodes |-> pushed,
              root_indices |-> <<idx>> \o st.root_indices]

\* nodes.push(node) and the link to the parent or to the roots
PushNode(st, node, parent_idx) ==
    LET idx == Len(st.nodes)
        pushed == Append(st.nodes, node)
    IN  IF parent_idx # None
        THEN [nodes |-> [pushed EXCEPT
                            ![Unwrap(parent_idx) + 1].children = Append(@, idx),
                            ![Unwrap(parent_idx) + 1].is_dir = TRUE],
              root_indices |-> st.root_indices]
        ELSE [nodes |-> pushed,
              root_indices |-> Append(st.root_indices, idx)]

\* mutant of NextParent: the parent is not advanced along the path
NextParentKept(ns, current_path, parent_idx) == parent_idx

\* parent_idx = Some(path_to_index[&current_path])
NextParent(ns, current_path, parent_idx) ==
    Some(IndexOfPath(ns, current_path))

\* the inner loop over relative.components(), from component k on
RECURSIVE NewComponents(_, _, _, _)
NewComponents(st, relative, k, parent_idx) ==
    IF k > Len(relative) THEN st
    ELSE LET current_path == SubSeq(relative, 1, k)
             component == relative[k]
             st2 == IF ~ContainsKey(st.nodes, current_path)
                    THEN PushNode(st, NewUiNode(current_path, relative, component),
                                  parent_idx)
                    ELSE st
         IN  NewComponents(st2, relative, k + 1,
                           NextParent(st2.nodes, current_path, parent_idx))

\* the outer loop over files, from file i on
RECURSIVE NewFiles(_, _, _)
NewFiles(st, fs, i) ==
    IF i > Len(fs) THEN st
    ELSE NewFiles(NewComponents(st, fs[i].relative_path, 1, None), fs, i + 1)

BuildTree(fs) == NewFiles([nodes |-> <<>>, root_indices |-> <<>>], fs, 1)

----------------------------------------------------------------------------
(* The view *)

\* mutant of collect_visible: the expanded flag is not consulted
RECURSIVE collect_regardless(_, _)
RECURSIVE collect_all_regardless(_, _, _)
collect_all_regardless(ns, children, k) ==
    IF k > Len(children) THEN <<>>
    ELSE collect_regardless(ns, children[k])
            \o collect_all_regardless(ns, children, k + 1)

collect_regardless(ns, idx) ==
    <<idx>> \o collect_all_regardless(ns, At(ns, idx).children, 1)

RECURSIVE collect_visible(_, _)
RECURSIVE collect_all(_, _, _)
\* mutant of collect_all: the children are visited last to first
RECURSIVE collect_all_reversed(_, _, _)
collect_all_reversed(ns, children, k) ==
    IF k > Len(children) THEN <<>>
    ELSE collect_all_reversed(ns, children, k + 1) \o collect_visible(ns, children[k])

\* for child_idx in children { self.collect_visible(child_idx) }, from child k
collect_all(ns, children, k) ==
    IF k > Len(children) THEN <<>>
    ELSE collect_visible(ns, children[k]) \o collect_all(ns, children, k + 1)

collect_visible(ns, idx) ==
    LET node == At(ns, idx)
    IN  <<idx>> \o (IF node.is_dir /\ node.expanded
                    THEN collect_all(ns, node.children, 1)
                    ELSE <<>>)

RECURSIVE update_view_from(_, _, _)
update_view_from(ns, roots, k) ==
    IF k > Len(roots) THEN <<>>
    ELSE collect_visible(ns, roots[k]) \o update_view_from(ns, roots, k + 1)

\* view_items after update_view()
update_view(ns, roots) == update_view_from(ns, roots, 1)

\* mutant of CursorNode: the view is read one position before the cursor
CursorNodeBefore(vi, ls) ==
    IF ls # None /\ Unwrap(ls) < Len(vi)
    THEN Some(At(vi, IF Unwrap(ls) = 0 THEN 0 ELSE Unwrap(ls) - 1))
    ELSE None

\* list_state.selected() and view_items.get(selected_idx), chained: the node
\* under the cursor, if any
CursorNode(vi, ls) ==
    IF ls # None /\ Unwrap(ls) < Len(vi) THEN Some(At(vi, Unwrap(ls))) ELSE None

----------------------------------------------------------------------------
(* Selection *)

\* mutant of set_recursive_selection: the flag is set on the node alone
set_selection_flat(ns, idx, state) == [ns EXCEPT ![idx + 1].selected = state]

RECURSIVE set_recursive_selection(_, _, _)
RECURSIVE set_children_selection(_, _, _, _)
set_children_selection(ns, children, k, state) ==
    IF k > Len(children) THEN ns
    ELSE set_children_selection(set_recursive_selection(ns, children[k], state),
                                children, k + 1, state)

set_recursive_selection(ns, idx, state) ==
    LET ns1 == [ns EXCEPT ![idx + 1].selected = state]
    IN  set_children_selection(ns1, At(ns1, idx).children, 1, state)

\* mutant of toggle_selection: the node under the cursor is collapsed as well
toggle_selection_collapsing(ns, vi, ls) ==
    LET c == CursorNode(vi, ls)
    IN  IF c # None
        THEN [set_recursive_selection(ns, Unwrap(c), ~At(ns, Unwrap(c)).selected)
                 EXCEPT ![Unwrap(c) + 1].expanded = FALSE]
        ELSE ns

\* nodes after toggle_selection()
toggle_selection(ns, vi, ls) ==
    LET c == CursorNode(vi, ls)
    IN  IF c # None
        THEN set_recursive_selection(ns, Unwrap(c), ~At(ns, Unwrap(c)).selected)
        ELSE ns

\* mutant of toggle_expand: the flag is cleared instead of negated
toggle_expand_clear(ns, vi, ls) ==
    LET c == CursorNode(vi, ls)
    IN  IF c # None /\ At(ns, Unwrap(c)).is_dir
        THEN [ns EXCEPT ![Unwrap(c) + 1].expanded = FALSE]
        ELSE ns

\* mutant of toggle_expand: the flag is negated on a file node as well
toggle_expand_any(ns, vi, ls) ==
    LET c == CursorNode(vi, ls)
    IN  IF c # None
        THEN [ns EXCEPT ![Unwrap(c) + 1].expanded = ~At(ns, Unwrap(c)).expanded]
        ELSE ns

\* nodes after toggle_expand()
toggle_expand(ns, vi, ls) ==
    LET c == CursorNode(vi, ls)
    IN  IF c # None /\ At(ns, Unwrap(c)).is_dir
        THEN [ns EXCEPT ![Unwrap(c) + 1].expanded = ~At(ns, Unwrap(c)).expanded]
        ELSE ns

\* view_items after toggle_expand(): recomputed only when a flag was flipped
toggle_expand_view(ns, roots, vi, ls) ==
    LET c == CursorNode(vi, ls)
    IN  IF c # None /\ At(ns, Unwrap(c)).is_dir
        THEN update_view(toggle_expand(ns, vi, ls), roots)
        ELSE vi

\* mutant of get_selected_paths: only the nodes of the view are scanned
get_selected_visible ==
    {At(nodes, i).path :
        i \in {j \in Elems(view_items) :
                  At(nodes, j).selected /\ ~At(nodes, j).is_dir}}

\* mutant of get_selected_paths: directories are not filtered out
get_selected_with_dirs ==
    {nodes[k].path : k \in {j \in 1 .. Len(nodes) : nodes[j].selected}}

\* self.nodes.iter().filter(|n| n.selected && !n.is_dir).map(|n| n.path.clone())
get_selected_paths ==
    {nodes[k].path :
        k \in {j \in 1 .. Len(nodes) : nodes[j].selected /\ ~nodes[j].is_dir}}

----------------------------------------------------------------------------
(* Cursor moves *)

move_up(ls) ==
    IF ls # None
    THEN (IF Unwrap(ls) = 0 THEN Some(0) ELSE Some(Unwrap(ls) - 1))
    ELSE Some(0)

\* move_down when view_items.len() - 1 does not underflow, or is not evaluated
move_down(vi, ls) ==
    IF ls # None
    THEN (IF Unwrap(ls) >= Len(vi) - 1 THEN Some(Len(vi) - 1)
          ELSE Some(Unwrap(ls) + 1))
    ELSE Some(0)

----------------------------------------------------------------------------
(* Actions: App::new, then one action per App method the key dispatch of    *)
(* run_app_loop calls.  The methods are taken back to back, as any caller   *)
(* of the public App may call them; the redraw between two keys is          *)
(* ratatui's and is not part of the model.                                  *)

\* run_app_loop: while !app.should_quit
InLoop == pc = "run" /\ ~should_quit

New ==
    /\ pc = "new"
    /\ LET st == BuildTree(files)
           vi == update_view(st.nodes, st.root_indices)
       IN  /\ nodes' = st.nodes
           /\ root_indices' = st.root_indices
           /\ view_items' = vi
           /\ list_state' = IF vi # <<>> THEN Some(0) ELSE None
    /\ should_quit' = FALSE
    /\ confirmed' = FALSE
    /\ pc' = "run"
    /\ UNCHANGED <<main_vars, scan_vars, files>>

ToggleSelection ==
    /\ InLoop
    /\ nodes' = toggle_selection(nodes, view_items, list_state)
    /\ UNCHANGED <<main_vars, scan_vars, files, pc, root_indices, list_state, view_items,
                   should_quit, confirmed>>

ToggleExpand ==
    /\ InLoop
    /\ nodes' = toggle_expand(nodes, view_items, list_state)
    /\ view_items' = toggle_expand_view(nodes, root_indices, view_items, list_state)
    /\ UNCHANGED <<main_vars, scan_vars, files, pc, root_indices, list_state, should_quit, confirmed>>

MoveUp ==
    /\ InLoop
    /\ list_state' = move_up(list_state)
    /\ UNCHANGED <<main_vars, scan_vars, files, pc, nodes, root_indices, view_items,
                   should_quit, confirmed>>

\* `self.view_items.len() - 1` on an empty view with the cursor set is a usize
\* underflow: a build with overflow checks panics, a build without them wraps
\* to usize::MAX, which no cursor reaches, so the cursor takes the `i + 1` arm.
MoveDown ==
    /\ InLoop
    /\ \/ /\ (list_state = None \/ Len(view_items) > 0)
          /\ list_state' = move_down(view_items, list_state)
          /\ pc' = pc
       \/ /\ list_state # None /\ Len(view_items) = 0
          /\ list_state' = list_state
          /\ pc' = "panicked"
       \/ /\ list_state # None /\ Len(view_items) = 0
          /\ Unwrap(list_state) < MaxCursor
          /\ list_state' = Some(Unwrap(list_state) + 1)
          /\ pc' = pc
    /\ UNCHANGED <<main_vars, scan_vars, files, nodes, root_indices, view_items, should_quit, confirmed>>

Confirm ==
    /\ InLoop
    /\ confirmed' = TRUE
    /\ should_quit' = TRUE
    /\ UNCHANGED <<main_vars, scan_vars, files, pc, nodes, root_indices, list_state, view_items>>

Quit ==
    /\ InLoop
    /\ should_quit' = TRUE
    /\ UNCHANGED <<main_vars, scan_vars, files, pc, nodes, root_indices, list_state, view_items, confirmed>>

Blank ==
    /\ pc = "new"
    /\ nodes = <<>>
    /\ root_indices = <<>>
    /\ list_state = None
    /\ view_items = <<>>
    /\ should_quit = FALSE
    /\ confirmed = FALSE

\* the scanner at rest: the session and the build are studied on their own
NoScan ==
    /\ tree = <<>>
    /\ config = <<>>
    /\ walk = <<>>
    /\ found = <<>>
    /\ scan_pc = "idle"
    /\ returned = None
    /\ earlier = None

\* main before run_tui returns
NotReturned ==
    /\ tui_result = None
    /\ read = None

\* the interactive session on a scan result
Init == files \in ScanOutputs(MaxNodes) /\ Blank /\ NoScan /\ NotReturned

Next ==
    \/ New
    \/ ToggleSelection
    \/ ToggleExpand
    \/ MoveUp
    \/ MoveDown
    \/ Confirm
    \/ Quit

Spec == Init /\ [][Next]_vars

\* App::new on any record list
InitAny == files \in AnyLists(MaxFiles) /\ Blank /\ NoScan /\ NotReturned

NextBuild == New

SpecBuild == InitAny /\ [][NextBuild]_vars

----------------------------------------------------------------------------
(* main around the session: run_tui returns, main filters its record list   *)
(* and goes on to the reading phase, or returns.                            *)

\* largest number of tree nodes of a scan output taken through main
MaxSession == 4

\* Result<Option<HashSet<PathBuf>>>
TuiOk(v) == [ok |-> TRUE, selected |-> v]
TuiErr == [ok |-> FALSE]

\* mutant of run_tui_result: the selection is returned after a quit as well
run_tui_result_always(is_confirmed, selected) == TuiOk(Some(selected))

\* if app.confirmed { Ok(Some(app.get_selected_paths())) } else { Ok(None) }
run_tui_result(is_confirmed, selected) ==
    IF is_confirmed THEN TuiOk(Some(selected)) ELSE TuiOk(None)

\* mutant of retain: every record is kept
retain_all(fs, selected_paths) == fs

\* files.retain(|node| selected_paths.contains(&node.relative_path))
retain(fs, selected_paths) ==
    SelectSeq(fs, LAMBDA node : node.relative_path \in selected_paths)

\* the loop has ended: run_tui returns Ok and main matches on it
ReturnTui ==
    /\ pc = "run"
    /\ should_quit
    /\ LET res == run_tui_result(confirmed, get_selected_paths)
       IN  /\ tui_result' = Some(res)
           /\ IF res.selected # None
              THEN /\ files' = retain(files, Unwrap(res.selected))
                   /\ pc' = "reading"
              ELSE /\ files' = files
                   /\ pc' = "exit"
    /\ UNCHANGED <<scan_vars, read, nodes, root_indices, list_state, view_items,
                   should_quit, confirmed>>

\* a terminal call fails (draw, poll, read in the loop; the restore calls
\* after it): run_tui returns Err and main returns it
TuiFails ==
    /\ pc = "run"
    /\ tui_result' = Some(TuiErr)
    /\ pc' = "exit"
    /\ UNCHANGED <<scan_vars, read, files, nodes, root_indices, list_state,
                   view_items, should_quit, confirmed>>

\* phase 2: the reader is given every record left in files
ReadFiles ==
    /\ pc = "reading"
    /\ read' = Some(files)
    /\ pc' = "done"
    /\ UNCHANGED <<scan_vars, tui_result, files, nodes, root_indices, list_state,
                   view_items, should_quit, confirmed>>

\* scan outputs of at most MaxSession tree nodes
SessionOutputs ==
    {fs \in ScanOutputs(MaxSession) :
        Cardinality(NodeKeys([k \in 1 .. Len(fs) |-> fs[k].relative_path]))
            <= MaxSession}

InitMain == files \in SessionOutputs /\ Blank /\ NoScan /\ NotReturned

NextMain ==
    \/ Next
    \/ ReturnTui
    \/ TuiFails
    \/ ReadFiles

\* an interactive run of main from the scan output to the reading phase
SpecMain == InitMain /\ [][NextMain]_vars

----------------------------------------------------------------------------
(* Vocabulary of the properties *)

NodeIdx == Indices(nodes)
PathOf(i) == At(nodes, i).path
\* a is a proper ancestor of i: its path is a proper prefix of i's path
IsAncestor(a, i) == IsProperPrefix(PathOf(a), PathOf(i))
Ancestors(i) == {a \in NodeIdx : IsAncestor(a, i)}
Descendants(i) == {d \in NodeIdx : IsAncestor(i, d)}
\* the places where index i is listed: in the roots, or in some children list
Listings(i) ==
    {<<"root", k>> : k \in {j \in 1 .. Len(root_indices) : root_indices[j] = i}}
    \cup UNION {{<<p, k>> : k \in {j \in 1 .. Len(At(nodes, p).children) :
                                      At(nodes, p).children[j] = i}} : p \in NodeIdx}
RelativePaths == {files[k].relative_path : k \in 1 .. Len(files)}

----------------------------------------------------------------------------
(* Properties of the build, on any record list (SpecBuild) *)

\* C8: the built tree is prefix-closed: every proper non-empty prefix of a
\* node's path is the path of a node, and the node is listed in the children
\* of the node of its immediate prefix, or in the roots when its path has a
\* single component.
C8_PrefixClosed ==
    pc = "run" =>
        \A i \in NodeIdx :
            /\ Len(PathOf(i)) >= 1
            /\ \A q \in Prefixes(PathOf(i)) : \E j \in NodeIdx : PathOf(j) = q
            /\ IF Len(PathOf(i)) = 1
               THEN i \in Elems(root_indices)
               ELSE \E j \in NodeIdx :
                       /\ PathOf(j) = SubSeq(PathOf(i), 1, Len(PathOf(i)) - 1)
                       /\ i \in Elems(At(nodes, j).children)

\* a tree is built in which a directory holds two children at depth 1
C8_Witness ==
    /\ pc = "run"
    /\ \E i \in NodeIdx : Len(At(nodes, i).children) >= 2 /\ Len(PathOf(i)) = 1

\* C9: the built tree holds at most one node per relative path, and every node
\* index is listed exactly once across the root list and all children lists.
C9_OneNodePerPath ==
    pc = "run" =>
        /\ \A i, j \in NodeIdx : PathOf(i) = PathOf(j) => i = j
        /\ \A i \in NodeIdx : Cardinality(Listings(i)) = 1

\* a tree is built from a list that repeats a path of two components and has
\* another record below the same directory
C9_Witness ==
    /\ pc = "run"
    /\ \E a, b, c \in 1 .. Len(files) :
          /\ a # b
          /\ files[a].relative_path = files[b].relative_path
          /\ Len(files[a].relative_path) = 2
          /\ Len(files[c].relative_path) = 2
          /\ files[c].relative_path # files[a].relative_path
          /\ files[c].relative_path[1] = files[a].relative_path[1]

----------------------------------------------------------------------------
(* Properties of the interactive session, on scan results (Spec) *)

\* the state right after build, as C10 describes it
FreshTree ==
    /\ \A i \in NodeIdx : At(nodes, i).selected /\ At(nodes, i).expanded
    /\ Elems(view_items) = NodeIdx
    /\ Len(view_items) = Len(nodes)
    /\ get_selected_paths = RelativePaths
    /\ Cardinality(get_selected_paths) = Len(files)
    /\ list_state = (IF Len(nodes) > 0 THEN Some(0) ELSE None)

Cursor == CursorNode(view_items, list_state)
CursorIdx == Unwrap(Cursor)
IsDir(i) == At(nodes, i).is_dir
IsSelected(i) == At(nodes, i).selected
IsExpanded(i) == At(nodes, i).expanded

\* C1: toggle_selection on the node n under the cursor sets selected on n and
\* on every transitive descendant of n to the negation of n's previous value,
\* and leaves the selected flag of every ancestor of n unchanged.
C1_ToggleSelectionDownward ==
    [][(ToggleSelection /\ Cursor # None) =>
          /\ \A i \in {CursorIdx} \cup Descendants(CursorIdx) :
                At(nodes', i).selected = ~IsSelected(CursorIdx)
          /\ \A a \in Ancestors(CursorIdx) :
                At(nodes', a).selected = IsSelected(a)]_vars

\* a directory below a deselected ancestor is selected with everything under it:
\* the ancestor was toggled off, then the directory was toggled on again
C1_Witness ==
    /\ pc = "run"
    /\ \E a, n \in NodeIdx :
          /\ IsAncestor(a, n)
          /\ ~IsSelected(a)
          /\ IsDir(n) /\ IsSelected(n)
          /\ Descendants(n) # {}
          /\ \A d \in Descendants(n) : IsSelected(d)

\* C2: the view holds a node if and only if every proper ancestor of the node
\* is expanded (a collapsed directory is in the view, its descendants are
\* not), no node twice; with the single root directory collapsed the view has
\* exactly one entry.
C2_ViewIsExpandedPart ==
    pc # "new" =>
        /\ \A i \in NodeIdx :
              (i \in Elems(view_items)) <=> (\A a \in Ancestors(i) : IsExpanded(a))
        /\ Elems(view_items) \subseteq NodeIdx
        /\ Cardinality(Elems(view_items)) = Len(view_items)
        /\ (Len(root_indices) = 1 /\ ~IsExpanded(root_indices[1]))
              => Len(view_items) = 1

\* the single root directory is collapsed over at least three descendants
C2_Witness ==
    /\ pc = "run"
    /\ Len(root_indices) = 1
    /\ IsDir(root_indices[1]) /\ ~IsExpanded(root_indices[1])
    /\ Cardinality(Descendants(root_indices[1])) >= 3
    /\ view_items = <<root_indices[1]>>

\* C3: after a toggle_expand that collapses a directory, a second
\* toggle_expand right away gives back the view and every expanded flag as
\* they were before the collapse.
C3_CollapseThenExpandRestores ==
    [][(ToggleExpand /\ Cursor # None /\ IsDir(CursorIdx) /\ IsExpanded(CursorIdx)) =>
          /\ toggle_expand_view(nodes', root_indices', view_items', list_state')
                = view_items
          /\ \A i \in NodeIdx :
                At(toggle_expand(nodes', view_items', list_state'), i).expanded
                    = IsExpanded(i)]_vars

\* the cursor is on a collapsed directory that holds a collapsed directory and
\* an expanded one
C3_Witness ==
    /\ pc = "run"
    /\ Cursor # None
    /\ IsDir(CursorIdx) /\ ~IsExpanded(CursorIdx)
    /\ \E d, e \in Descendants(CursorIdx) :
          /\ IsDir(d) /\ ~IsExpanded(d)
          /\ IsDir(e) /\ IsExpanded(e)

\* C4 (state part): the query returns the path of a node exactly when the node
\* is a file and selected, over all nodes, in the view or not.
C4_QueryIsSelectedFiles ==
    pc # "new" =>
        /\ \A i \in NodeIdx :
              (PathOf(i) \in get_selected_paths) <=> (~IsDir(i) /\ IsSelected(i))
        /\ get_selected_paths \subseteq {PathOf(i) : i \in NodeIdx}

\* C4: in every reachable state the selected-file query returns exactly the
\* selected file nodes of the whole node collection; a step that changes no
\* selected flag (expand, collapse, cursor move) does not change the result;
\* and after toggle_selection turns a directory whose subtree is fully
\* selected to unselected, no file under it is returned.
C4_QueryIgnoresView ==
    /\ []C4_QueryIsSelectedFiles
    /\ [][(pc = "run" /\ \A i \in NodeIdx : At(nodes', i).selected = IsSelected(i))
            => get_selected_paths' = get_selected_paths]_vars
    /\ [][(/\ ToggleSelection
           /\ Cursor # None
           /\ IsDir(CursorIdx)
           /\ \A i \in {CursorIdx} \cup Descendants(CursorIdx) : IsSelected(i))
            => \A d \in Descendants(CursorIdx) :
                  At(nodes', d).path \notin get_selected_paths']_vars

\* a collapsed directory hides a deselected file and a selected file; the
\* directory itself is selected
C4_Witness ==
    /\ pc = "run"
    /\ \E d, f, g \in NodeIdx :
          /\ IsDir(d) /\ ~IsExpanded(d) /\ IsSelected(d)
          /\ IsAncestor(d, f) /\ ~IsDir(f) /\ ~IsSelected(f)
          /\ IsAncestor(d, g) /\ ~IsDir(g) /\ IsSelected(g)
          /\ PathOf(g) \in get_selected_paths
          /\ PathOf(f) \notin get_selected_paths

\* the records whose file node is selected
SelectedRecords ==
    {k \in 1 .. Len(files) :
        \E i \in NodeIdx :
            PathOf(i) = files[k].relative_path /\ ~IsDir(i) /\ IsSelected(i)}

\* C5 as stated: the query returns the absolute paths of the selected file
\* records.
C5_AbsolutePaths ==
    pc = "run" => get_selected_paths = {files[k].path : k \in SelectedRecords}

\* C5 as amended: the query returns the relative paths (relative_path, not
\* path) of the selected file records.
C5_RelativePaths ==
    pc = "run" =>
        /\ get_selected_paths = {files[k].relative_path : k \in SelectedRecords}
        /\ get_selected_paths \cap {files[k].path : k \in 1 .. Len(files)} = {}

\* one record is selected and another is not
C5_Witness ==
    /\ pc = "run"
    /\ SelectedRecords # {}
    /\ SelectedRecords # 1 .. Len(files)
    /\ get_selected_paths # {}

\* the cursor is a valid index of the view
CursorValid == list_state # None /\ Unwrap(list_state) < Len(view_items)

\* C6: on every tree, the empty one included, move_up and move_down complete
\* without failure and, where the view has an entry, leave the cursor on a
\* valid index of it.
C6_MovesNeverFail ==
    /\ pc # "panicked"
    /\ (pc = "run" /\ Len(view_items) > 0) => CursorValid

\* C7: on a tree with at least one node the cursor is a valid index of the
\* view in every state, in particular right after a toggle_expand that
\* recomputes (and shrinks) the view.
C7_CursorValid ==
    (pc = "run" /\ Len(nodes) > 0) => CursorValid

\* the cursor is on the last entry of a view that a collapse has shrunk: a
\* collapsed directory with children, not the first entry
C7_Witness ==
    /\ pc = "run"
    /\ CursorValid
    /\ Unwrap(list_state) = Len(view_items) - 1
    /\ Unwrap(list_state) > 0
    /\ IsDir(CursorIdx) /\ ~IsExpanded(CursorIdx)
    /\ Descendants(CursorIdx) # {}
    /\ Len(view_items) < Len(nodes)

----------------------------------------------------------------------------
(* The scanner: FsScanner::scan of src/src/adapters/fs_scanner.rs.         *)
(* Strings are sequences of bytes.  B gives the UTF-8 bytes of every name  *)
(* the model mentions, so that substring tests, extensions, lowercasing    *)
(* and orderings are computed on the bytes, as the code computes them.     *)

B(s) ==
    CASE s = "/" -> <<47>>
      [] s = "." -> <<46>>
      [] s = ".." -> <<46, 46>>
      [] s = "my-src" -> <<109, 121, 45, 115, 114, 99>>
      [] s = "a" -> <<97>>
      [] s = "a-b" -> <<97, 45, 98>>
      [] s = "b" -> <<98>>
      [] s = "x" -> <<120>>
      [] s = "y" -> <<121>>
      [] s = "src" -> <<115, 114, 99>>
      [] s = "docs" -> <<100, 111, 99, 115>>
      [] s = "adapters" -> <<97, 100, 97, 112, 116, 101, 114, 115>>
      [] s = "main.rs" -> <<109, 97, 105, 110, 46, 114, 115>>
      [] s = "mod.rs" -> <<109, 111, 100, 46, 114, 115>>
      [] s = "info.md" -> <<105, 110, 102, 111, 46, 109, 100>>
      [] s = "A.RS" -> <<65, 46, 82, 83>>
      [] s = "keep.rs" -> <<107, 101, 101, 112, 46, 114, 115>>
      [] s = "ignore.py" -> <<105, 103, 110, 111, 114, 101, 46, 112, 121>>
      [] s = "script.py" -> <<115, 99, 114, 105, 112, 116, 46, 112, 121>>
      [] s = "Makefile" -> <<77, 97, 107, 101, 102, 105, 108, 101>>
      [] s = "a.txt" -> <<97, 46, 116, 120, 116>>
      [] s = "c.txt" -> <<99, 46, 116, 120, 116>>
      [] s = ".hidden" -> <<46, 104, 105, 100, 100, 101, 110>>
      [] s = "secret.env" -> <<115, 101, 99, 114, 101, 116, 46, 101, 110, 118>>
      [] s = ".env" -> <<46, 101, 110, 118>>
      [] s = ".ignore" -> <<46, 105, 103, 110, 111, 114, 101>>
      [] s = "config" -> <<99, 111, 110, 102, 105, 103>>
      [] s = "main" -> <<109, 97, 105, 110>>
      [] s = "rs" -> <<114, 115>>
      [] s = "py" -> <<112, 121>>
      [] s = "Cargo.lock" -> <<67, 97, 114, 103, 111, 46, 108, 111, 99, 107>>
      [] s = "package-lock.json" -> <<112, 97, 99, 107, 97, 103, 101, 45, 108, 111, 99, 107, 46, 106, 115, 111, 110>>
      [] s = "yarn.lock" -> <<121, 97, 114, 110, 46, 108, 111, 99, 107>>
      [] s = "pnpm-lock.yaml" -> <<112, 110, 112, 109, 45, 108, 111, 99, 107, 46, 121, 97, 109, 108>>
      [] s = "poetry.lock" -> <<112, 111, 101, 116, 114, 121, 46, 108, 111, 99, 107>>
      [] s = "Pipfile.lock" -> <<80, 105, 112, 102, 105, 108, 101, 46, 108, 111, 99, 107>>
      [] s = ".DS_Store" -> <<46, 68, 83, 95, 83, 116, 111, 114, 101>>
      [] s = "Thumbs.db" -> <<84, 104, 117, 109, 98, 115, 46, 100, 98>>
      [] s = ".git" -> <<46, 103, 105, 116>>
      [] s = ".svn" -> <<46, 115, 118, 110>>
      [] s = ".hg" -> <<46, 104, 103>>
      [] s = "target" -> <<116, 97, 114, 103, 101, 116>>
      [] s = "build" -> <<98, 117, 105, 108, 100>>
      [] s = "dist" -> <<100, 105, 115, 116>>
      [] s = "node_modules" -> <<110, 111, 100, 101, 95, 109, 111, 100, 117, 108, 101, 115>>
      [] s = "__pycache__" -> <<95, 95, 112, 121, 99, 97, 99, 104, 101, 95, 95>>
      [] s = ".venv" -> <<46, 118, 101, 110, 118>>
      [] s = "venv" -> <<118, 101, 110, 118>>
      [] s = ".idea" -> <<46, 105, 100, 101, 97>>
      [] s = ".vscode" -> <<46, 118, 115, 99, 111, 100, 101>>
      [] s = ".gitignore" -> <<46, 103, 105, 116, 105, 103, 110, 111, 114, 101>>
      [] s = "info" -> <<105, 110, 102, 111>>
      [] s = "exclude" -> <<101, 120, 99, 108, 117, 100, 101>>
      [] s = "public.rs" -> <<112, 117, 98, 108, 105, 99, 46, 114, 115>>
      [] s = "" -> <<>>

\* a path written as a tuple of names: P(<<"src", "main.rs">>)
P(ss) == [k \in 1 .. Len(ss) |-> B(ss[k])]

\* path.to_string_lossy(): the components joined by the separator
RECURSIVE PathStr(_)
PathStr(p) ==
    IF p = <<>> THEN <<>>
    ELSE IF Len(p) = 1 THEN p[1]
    ELSE PathStr(SubSeq(p, 1, Len(p) - 1)) \o B("/") \o p[Len(p)]

\* str::contains: needle occurs in hay as a contiguous run of bytes
Contains(hay, needle) ==
    \E k \in 0 .. (Len(hay) - Len(needle)) :
        SubSeq(hay, k + 1, k + Len(needle)) = needle

StartsWith(s, t) == Len(t) <= Len(s) /\ SubSeq(s, 1, Len(t)) = t
EndsWith(s, t) == Len(t) <= Len(s) /\ SubSeq(s, Len(s) - Len(t) + 1, Len(s)) = t

\* str::to_lowercase on ASCII: 'A'..'Z' become 'a'..'z', other bytes stay
LowerByte(c) ==
    IF B("A.RS")[1] <= c /\ c <= B("A.RS")[1] + 25
    THEN c + (B("a")[1] - B("A.RS")[1])
    ELSE c
to_lowercase(s) == [k \in 1 .. Len(s) |-> LowerByte(s[k])]

\* Path::extension on the file name: the bytes after the last dot; None when
\* the name is "..", has no dot, or its only dot is the leading one
extension(name) ==
    LET dots == {k \in 1 .. Len(name) : name[k] = B(".")[1]}
        last == IF dots = {} THEN 0
                ELSE CHOOSE k \in dots : \A j \in dots : j <= k
    IN  IF name = B("..") \/ last <= 1 THEN None
        ELSE Some(SubSeq(name, last + 1, Len(name)))

\* Path::strip_prefix(root), and the full path when root is no prefix
strip_prefix_or(path, root) ==
    IF IsPrefix(root, path) THEN SubSeq(path, Len(root) + 1, Len(path))
    ELSE path

----------------------------------------------------------------------------
(* Noise veto and user filters *)

NOISE_FILES ==
    {B("Cargo.lock"), B("package-lock.json"), B("yarn.lock"),
     B("pnpm-lock.yaml"), B("poetry.lock"), B("Pipfile.lock"),
     B(".DS_Store"), B("Thumbs.db")}

NOISE_DIRS ==
    {B(".git"), B(".svn"), B(".hg"), B("target"), B("build"), B("dist"),
     B("node_modules"), B("__pycache__"), B(".venv"), B("venv"),
     B(".idea"), B(".vscode")}

\* DirEntry::file_name / Path::file_name: the last component
file_name(path) == path[Len(path)]

\* mutant of is_noise: the noise lists are not consulted
is_noise_never(entry) == FALSE

is_noise(entry) ==
    \/ file_name(entry.path) \in NOISE_FILES
    \/ (entry.is_dir /\ file_name(entry.path) \in NOISE_DIRS)

\* path.extension().and_then(|e| e.to_str()).unwrap_or("").to_lowercase()
lowercased_extension(path) ==
    LET e == extension(file_name(path))
    IN  to_lowercase(IF e = None THEN B("") ELSE Unwrap(e))

AnyContained(path_str, patterns) ==
    \E k \in 1 .. Len(patterns) : Contains(path_str, patterns[k])

\* mutant of matches_filters: an include pattern wins over an exclude pattern
matches_filters_include_first(path, cfg) ==
    LET path_str == PathStr(path)
        ext == lowercased_extension(path)
    IN  /\ (AnyContained(path_str, cfg.include_paths)
            \/ ~AnyContained(path_str, cfg.exclude_paths))
        /\ (cfg.include_paths = <<>> \/ AnyContained(path_str, cfg.include_paths))
        /\ ext \notin cfg.exclude_extensions
        /\ (cfg.include_extensions = {} \/ ext \in cfg.include_extensions)

\* mutant of matches_filters: an included extension wins over its exclusion
matches_filters_ext_include_first(path, cfg) ==
    LET path_str == PathStr(path)
        ext == lowercased_extension(path)
    IN  /\ ~AnyContained(path_str, cfg.exclude_paths)
        /\ (cfg.include_paths = <<>> \/ AnyContained(path_str, cfg.include_paths))
        /\ (ext \in cfg.include_extensions \/ ext \notin cfg.exclude_extensions)
        /\ (cfg.include_extensions = {} \/ ext \in cfg.include_extensions)

\* mutant of matches_filters: the extension is compared as written
matches_filters_case_sensitive(path, cfg) ==
    LET path_str == PathStr(path)
        e == extension(file_name(path))
        ext == IF e = None THEN B("") ELSE Unwrap(e)
    IN  /\ ~AnyContained(path_str, cfg.exclude_paths)
        /\ (cfg.include_paths = <<>> \/ AnyContained(path_str, cfg.include_paths))
        /\ ext \notin cfg.exclude_extensions
        /\ (cfg.include_extensions = {} \/ ext \in cfg.include_extensions)

\* `path` is the entry's path as the walker gives it: the root joined with
\* the path below the root
matches_filters(path, cfg) ==
    LET path_str == PathStr(path)
        ext == lowercased_extension(path)
    IN  /\ ~AnyContained(path_str, cfg.exclude_paths)
        /\ (cfg.include_paths = <<>> \/ AnyContained(path_str, cfg.include_paths))
        /\ ext \notin cfg.exclude_extensions
        /\ (cfg.include_extensions = {} \/ ext \in cfg.include_extensions)

----------------------------------------------------------------------------
(* The directory tree and the walker.  A tree on disk is given by the      *)
(* state of its root ("dir", "missing" or "unreadable"), the set of its    *)
(* regular files (paths below the root; their proper prefixes are its      *)
(* directories) and the set of entries whose traversal fails.  The walker  *)
(* is ignore::WalkBuilder as scan configures it: depth first, a directory  *)
(* before its content, siblings in the order the file system lists them.   *)

Tree(root, fs, failing) == [root |-> root, files |-> fs, failing |-> failing]

Dirs(t) == UNION {{SubSeq(p, 1, k) : k \in 1 .. (Len(p) - 1)} : p \in t.files}
Entries(t) == t.files \cup Dirs(t)
Children(t, dir) ==
    {p \in Entries(t) : Len(p) = Len(dir) + 1 /\ IsPrefix(dir, p)}

\* the walker's DirEntry for the entry at `rel` below the root
DirEntry(t, cfg, rel) ==
    [path |-> cfg.root_path \o rel,
     depth |-> Len(rel),
     is_dir |-> (rel = <<>> \/ rel \in Dirs(t)),
     is_file |-> rel \in t.files]

OkItem(e) == [ok |-> TRUE, entry |-> e]
ErrItem(e) == [ok |-> FALSE, entry |-> e]

\* mutant of is_hidden: no name is hidden
is_hidden_never(entry) == FALSE

\* .hidden(!config.include_hidden): a name with a leading dot is hidden
is_hidden(entry) == StartsWith(file_name(entry.path), B("."))

\* the root lies in a git work tree: it has a `.git` directory
in_git(t) == P(<<".git">>) \in Dirs(t)

\* The ignore files of a tree, each holding the one rule `*.env` when the tree
\* has it.  standard_filters(true) turns on the filters ignore, git_ignore,
\* git_global, git_exclude (and parents, hidden); scan then sets ignore,
\* git_ignore and git_global to !no_ignore and leaves git_exclude on.  The
\* walker applies git rules only inside a git work tree (require_git, which
\* scan does not touch).
ignore_matched(entry, cfg, t) ==
    /\ EndsWith(file_name(entry.path), B(".env"))
    /\ \/ (~cfg.no_ignore /\ P(<<".ignore">>) \in t.files)
       \/ (~cfg.no_ignore /\ in_git(t) /\ P(<<".gitignore">>) \in t.files)
       \/ (in_git(t) /\ P(<<".git", "info", "exclude">>) \in t.files)

\* mutant of skip_entry: the depth limit is taken one level too early
skip_entry_depth_early(entry, cfg, t) ==
    \/ (~cfg.include_hidden /\ is_hidden(entry))
    \/ ignore_matched(entry, cfg, t)
    \/ (cfg.max_depth # None /\ entry.depth >= Unwrap(cfg.max_depth))
    \/ is_noise(entry)

\* what the walker drops, with all that lies below it; the root (depth 0) is
\* never dropped
skip_entry(entry, cfg, t) ==
    \/ (~cfg.include_hidden /\ is_hidden(entry))
    \/ ignore_matched(entry, cfg, t)
    \/ (cfg.max_depth # None /\ entry.depth > Unwrap(cfg.max_depth))
    \/ is_noise(entry)

RECURSIVE Perms(_)
Perms(S) ==
    IF S = {} THEN {<<>>}
    ELSE UNION {{<<x>> \o p : p \in Perms(S \ {x})} : x \in S}

RECURSIVE walk_below(_, _, _)
RECURSIVE walk_along(_, _, _)
\* the sequences of items the walker can yield for the content of `dir`
walk_below(t, cfg, dir) ==
    LET kids == {p \in Children(t, dir) : ~skip_entry(DirEntry(t, cfg, p), cfg, t)}
    IN  UNION {walk_along(t, cfg, order) : order \in Perms(kids)}
\* ... for the entries of `order`, each followed by what lies below it; an
\* entry whose traversal fails is yielded as an error and not entered
walk_along(t, cfg, order) ==
    IF order = <<>> THEN {<<>>}
    ELSE LET e == DirEntry(t, cfg, Head(order))
             own == IF Head(order) \in t.failing THEN {<<ErrItem(e)>>}
                    ELSE IF e.is_dir
                    THEN {<<OkItem(e)>> \o sub : sub \in walk_below(t, cfg, Head(order))}
                    ELSE {<<OkItem(e)>>}
         IN  {o \o rest : o \in own, rest \in walk_along(t, cfg, Tail(order))}

\* WalkBuilder::new(root)...build(): a missing root is yielded as one error,
\* an unreadable root as itself and then the error of listing it
WalkOrders(t, cfg) ==
    LET root == DirEntry(t, cfg, <<>>)
    IN  IF t.root = "missing" THEN {<<ErrItem(root)>>}
        ELSE IF t.root = "unreadable" THEN {<<OkItem(root), ErrItem(root)>>}
        ELSE {<<OkItem(root)>> \o sub : sub \in walk_below(t, cfg, <<>>)}

----------------------------------------------------------------------------
(* scan *)

\* FileNode::new(path, relative_path)
FileNode_new(path, relative_path) ==
    [path |-> path, relative_path |-> relative_path]

\* mutant of InsertSorted: the comparison is turned round
RECURSIVE InsertSorted_desc(_, _)
InsertSorted_desc(sorted, x) ==
    IF sorted = <<>> THEN <<x>>
    ELSE IF PathLess(Head(sorted).relative_path, x.relative_path)
    THEN <<x>> \o sorted
    ELSE <<Head(sorted)>> \o InsertSorted_desc(Tail(sorted), x)

\* Vec::sort_by is stable: an element goes after those not greater than it
RECURSIVE InsertSorted(_, _)
InsertSorted(sorted, x) ==
    IF sorted = <<>> THEN <<x>>
    ELSE IF PathLess(x.relative_path, Head(sorted).relative_path)
    THEN <<x>> \o sorted
    ELSE <<Head(sorted)>> \o InsertSorted(Tail(sorted), x)

\* mutant of sort_by: the list is returned in the order of the walk
sort_by_nothing(fs) == fs

\* files.sort_by(|a, b| a.relative_path.cmp(&b.relative_path))
RECURSIVE sort_by(_)
sort_by(fs) ==
    IF fs = <<>> THEN <<>>
    ELSE InsertSorted(sort_by(SubSeq(fs, 1, Len(fs) - 1)), fs[Len(fs)])

\* Result<Vec<FileNode>>
Ok(v) == [ok |-> TRUE, files |-> v]

ui_vars == <<files, pc, nodes, root_indices, list_state, view_items,
             should_quit, confirmed>>

\* scan up to the loop: the walker is built and has its order
StartScan ==
    /\ scan_pc \in {"idle", "done"}
    /\ \E order \in WalkOrders(tree, config) : walk' = order
    /\ found' = <<>>
    /\ scan_pc' = "walk"
    /\ earlier' = returned
    /\ returned' = None
    /\ UNCHANGED <<tree, config, ui_vars, main_vars>>

\* one turn of the loop on Ok(entry): a non-file is passed over, and so is a
\* file the filters reject; any other file is pushed
VisitEntry ==
    /\ scan_pc = "walk"
    /\ walk # <<>>
    /\ Head(walk).ok
    /\ LET path == Head(walk).entry.path
       IN  found' =
             IF Head(walk).entry.is_file /\ matches_filters(path, config)
             THEN Append(found,
                         FileNode_new(path, strip_prefix_or(path, config.root_path)))
             ELSE found
    /\ walk' = Tail(walk)
    /\ UNCHANGED <<tree, config, scan_pc, returned, earlier, ui_vars, main_vars>>

\* mutant of VisitError: the first error ends the loop
VisitErrorAbort ==
    /\ scan_pc = "walk"
    /\ walk # <<>>
    /\ ~Head(walk).ok
    /\ walk' = <<>>
    /\ UNCHANGED <<tree, config, found, scan_pc, returned, earlier, ui_vars, main_vars>>

\* one turn of the loop on Err(err): a warning, nothing else
VisitError ==
    /\ scan_pc = "walk"
    /\ walk # <<>>
    /\ ~Head(walk).ok
    /\ walk' = Tail(walk)
    /\ UNCHANGED <<tree, config, found, scan_pc, returned, earlier, ui_vars, main_vars>>

\* after the loop: sort, Ok(files)
ReturnScan ==
    /\ scan_pc = "walk"
    /\ walk = <<>>
    /\ returned' = Ok(sort_by(found))
    /\ scan_pc' = "done"
    /\ UNCHANGED <<tree, config, walk, found, earlier, ui_vars, main_vars>>

----------------------------------------------------------------------------
(* Inputs of scan: a tree on disk and a configuration *)

\* largest number of ingredients of an input: files in the tree plus
\* settings changed from the default configuration
MaxInput == 3

\* the files a tree is made of
PoolFiles ==
    {P(<<"a", "x">>), P(<<"a", "y">>), P(<<"a-b", "x">>), P(<<"src", "main.rs">>),
     P(<<"A.RS">>), P(<<"Makefile">>), P(<<"b", ".hidden">>),
     P(<<"target", "main.rs">>), P(<<"Cargo.lock">>), P(<<".git", "config">>),
     P(<<"secret.env">>), P(<<".ignore">>), P(<<".gitignore">>),
     P(<<".git", "info", "exclude">>)}

\* ContextConfig::default(), of which scan reads these fields
DefaultConfig ==
    [root_path |-> P(<<".">>),
     max_depth |-> None,
     include_hidden |-> FALSE,
     no_ignore |-> FALSE,
     include_extensions |-> {},
     exclude_extensions |-> {},
     include_paths |-> <<>>,
     exclude_paths |-> <<>>]

\* the settings a configuration can differ from the default by
Settings ==
    {<<"root_path", P(<<"my-src">>)>>,
     <<"max_depth", Some(0)>>,
     <<"max_depth", Some(1)>>,
     <<"include_hidden", TRUE>>,
     <<"no_ignore", TRUE>>,
     <<"include_extensions", {B("rs")}>>,
     <<"include_extensions", {B("")}>>,
     <<"exclude_extensions", {B("rs")}>>,
     <<"include_paths", <<B("src")>> >>,
     <<"exclude_paths", <<B("src")>> >>,
     <<"exclude_paths", <<B("main")>> >>}

WithSettings(S) ==
    [f \in DOMAIN DefaultConfig |->
        IF \E s \in S : s[1] = f THEN (CHOOSE s \in S : s[1] = f)[2]
        ELSE DefaultConfig[f]]

RECURSIVE SubsetsUpTo(_, _)
SubsetsUpTo(S, k) ==
    IF k <= 0 THEN {{}}
    ELSE LET T == SubsetsUpTo(S, k - 1)
         IN  T \cup {s \cup {x} : s \in T, x \in S}

\* configurations with at most k settings, one per field
ScanConfigs(k) ==
    {WithSettings(S) :
        S \in {X \in SubsetsUpTo(Settings, k) :
                 \A a \in X, b \in X : a[1] = b[1] => a = b}}

\* trees of pool files with at most one failing entry, each with the
\* configurations the rest of the budget allows
PoolInputs(n) ==
    UNION {{<<Tree("dir", fs, bad), cfg>> :
              bad \in {{}} \cup {{e} : e \in Entries(Tree("dir", fs, {}))},
              cfg \in ScanConfigs(n - Cardinality(fs))} :
           fs \in SubsetsUpTo(PoolFiles, n)}

\* a root that is not there, or cannot be listed
BrokenRoots(n) ==
    {<<Tree(r, {}, {}), cfg>> : r \in {"missing", "unreadable"}, cfg \in ScanConfigs(n)}

\* spec.md section 8, Scenario A
ScenarioA ==
    <<Tree("dir", {P(<<"a.txt">>), P(<<"b", "c.txt">>), P(<<"b", ".hidden">>)}, {}),
      DefaultConfig>>
\* spec.md section 8, Scenario B
ScenarioB ==
    <<Tree("dir", {P(<<"main.rs">>), P(<<"script.py">>)}, {}),
      [DefaultConfig EXCEPT !.exclude_extensions = {B("py")}]>>
\* tests/cli_tests.rs, test_cli_filtering_flow
CliFiltering ==
    <<Tree("dir", {P(<<"keep.rs">>), P(<<"ignore.py">>)}, {}),
      [DefaultConfig EXCEPT !.include_extensions = {B("rs")}]>>
\* fs_scanner.rs, test_scan_path_filtering
PathFiltering ==
    <<Tree("dir", {P(<<"src", "main.rs">>), P(<<"src", "adapters", "mod.rs">>),
                   P(<<"docs", "info.md">>)}, {}),
      [DefaultConfig EXCEPT !.include_paths = <<B("src")>>]>>

\* fs_scanner.rs, test_scan_gitignore_respect_and_bypass: its temporary
\* directory, case 1 (default) and case 2 (no_ignore)
GitignoreFiles == {P(<<"secret.env">>), P(<<"public.rs">>), P(<<".gitignore">>)}
GitignoreRespect == <<Tree("dir", GitignoreFiles, {}), DefaultConfig>>
GitignoreBypass ==
    <<Tree("dir", GitignoreFiles, {}), [DefaultConfig EXCEPT !.no_ignore = TRUE]>>
\* the same files in the root of a git work tree
RepoRespect ==
    <<Tree("dir", GitignoreFiles \cup {P(<<".git", "config">>)}, {}), DefaultConfig>>
RepoBypass ==
    <<Tree("dir", GitignoreFiles \cup {P(<<".git", "config">>)}, {}),
      [DefaultConfig EXCEPT !.no_ignore = TRUE]>>

ScanInputs(n) ==
    PoolInputs(n) \cup BrokenRoots(n)
        \cup {ScenarioA, ScenarioB, CliFiltering, PathFiltering,
              GitignoreRespect, GitignoreBypass, RepoRespect, RepoBypass}

InitScan ==
    /\ \E in \in ScanInputs(MaxInput) : tree = in[1] /\ config = in[2]
    /\ walk = <<>>
    /\ found = <<>>
    /\ scan_pc = "idle"
    /\ returned = None
    /\ earlier = None
    /\ files = <<>>
    /\ Blank
    /\ NotReturned

NextScan ==
    \/ StartScan
    \/ VisitEntry
    \/ VisitError
    \/ ReturnScan

\* scan, called once and again, on every input
SpecScan == InitScan /\ [][NextScan]_vars

----------------------------------------------------------------------------
(* Vocabulary of the scan properties *)

ScanDone == scan_pc = "done"
\* the relative paths of the returned records, in the returned order
ResultPaths ==
    [k \in 1 .. Len(returned.files) |-> returned.files[k].relative_path]
ResultSet == Elems(ResultPaths)
\* the path below the root as one string, separators included
RelStr(rel) == PathStr(rel)

----------------------------------------------------------------------------
(* Claims on the order of the scan result *)

\* C11 as stated: scan returns the records sorted ascending by byte-wise
\* comparison of the whole relative path string, separator included, so that
\* `a-b/x` comes before `a/y`.
C11_ByteWiseSorted ==
    ScanDone =>
        \A i \in 1 .. Len(ResultPaths), j \in 1 .. Len(ResultPaths) :
            i < j => BytesLess(RelStr(ResultPaths[i]), RelStr(ResultPaths[j]))

\* C11 amended: scan returns the records sorted ascending by relative path
\* compared component by component, each component byte-wise (PathBuf's
\* order), so that `a/y` comes before `a-b/x`.
C11_ComponentWiseSorted ==
    ScanDone =>
        \A i \in 1 .. Len(ResultPaths), j \in 1 .. Len(ResultPaths) :
            i < j => PathLess(ResultPaths[i], ResultPaths[j])

\* a scan has returned `a/y` before `a-b/x`, where the two orders differ
C11_Witness ==
    /\ ScanDone
    /\ ResultPaths = <<P(<<"a", "y">>), P(<<"a-b", "x">>)>>
    /\ BytesLess(RelStr(P(<<"a-b", "x">>)), RelStr(P(<<"a", "y">>)))

\* C12: scan is deterministic: for the same tree on disk and the same
\* configuration a scan returns the same ordered list as the scan before it,
\* whatever the orders in which the two walks yielded the entries.
C12_SameListAgain ==
    (ScanDone /\ earlier # None) => returned = earlier

\* a second scan has returned, on a tree whose walk has more than one order
C12_Witness ==
    /\ ScanDone
    /\ earlier # None
    /\ Len(returned.files) >= 2
    /\ Cardinality(WalkOrders(tree, config)) >= 2

\* no walker filter drops the file or a directory above it
Unfiltered(f) ==
    \A k \in 1 .. Len(f) :
        ~skip_entry(DirEntry(tree, config, SubSeq(f, 1, k)), config, tree)
\* the traversal fails neither at the file nor at a directory above it
Reached(f) == \A k \in 1 .. Len(f) : SubSeq(f, 1, k) \notin tree.failing
\* the files the loop of scan sees as Ok(entry)
Kept == {f \in tree.files : Unfiltered(f) /\ Reached(f)}
\* the path of the file as the walker gives it to matches_filters
FullStr(f) == PathStr(config.root_path \o f)
\* the rule on path patterns, on a path string
PathRule(str) ==
    /\ ~AnyContained(str, config.exclude_paths)
    /\ (config.include_paths = <<>> \/ AnyContained(str, config.include_paths))
\* the rule on extensions
ExtRule(f) ==
    /\ lowercased_extension(f) \notin config.exclude_extensions
    /\ (config.include_extensions = {}
        \/ lowercased_extension(f) \in config.include_extensions)
Sorted(paths) ==
    \A i \in 1 .. Len(paths), j \in 1 .. Len(paths) :
        i < j => PathLess(paths[i], paths[j])

----------------------------------------------------------------------------
(* Claims on the user filters *)

\* C13: a file passes the path filters iff no exclude_paths pattern is a
\* substring of its path and (include_paths is empty or some include_paths
\* pattern is a substring of its path); a path matching both an exclude and
\* an include pattern is excluded; with include_paths = ["src"], src/main.rs
\* and src/adapters/mod.rs are emitted and docs/info.md is not.
C13_PathFilters ==
    ScanDone =>
        /\ \A f \in Kept :
              ExtRule(f) => (f \in ResultSet <=> PathRule(FullStr(f)))
        /\ (<<tree, config>> = PathFiltering
              => ResultPaths = <<P(<<"src", "adapters", "mod.rs">>),
                                 P(<<"src", "main.rs">>)>>)

\* a file matched by an exclude and by an include pattern was left out
C13_Witness ==
    /\ ScanDone
    /\ \E f \in Kept :
          /\ ExtRule(f)
          /\ AnyContained(FullStr(f), config.exclude_paths)
          /\ AnyContained(FullStr(f), config.include_paths)
          /\ f \notin ResultSet

\* C14 as stated: the exclude and include patterns are matched against the
\* string form of the path relative to the scan root, so a pattern that
\* occurs only in the root's own path neither excludes nor includes a file.
C14_PatternsOnRelativePath ==
    ScanDone =>
        \A f \in Kept :
            ExtRule(f) => (f \in ResultSet <=> PathRule(RelStr(f)))

\* C15: a file whose lowercased extension is in both exclude_extensions and
\* include_extensions is never emitted.
C15_ExcludedExtensionWins ==
    ScanDone =>
        \A f \in ResultSet :
            ~(/\ lowercased_extension(f) \in config.exclude_extensions
              /\ lowercased_extension(f) \in config.include_extensions)

\* a file the walk and the path filters let through, with its extension in
\* both sets, was left out
C15_Witness ==
    /\ ScanDone
    /\ \E f \in Kept :
          /\ PathRule(FullStr(f))
          /\ lowercased_extension(f) \in config.exclude_extensions
          /\ lowercased_extension(f) \in config.include_extensions
          /\ f \notin ResultSet

\* C16 as stated, the part that fails: a file with no extension is excluded
\* whenever include_extensions is non-empty.
C16_NoExtensionNeverIncluded ==
    (ScanDone /\ config.include_extensions # {}) =>
        \A f \in ResultSet : extension(file_name(f)) # None

\* C16 amended: extension filtering uses the file's lowercased extension
\* without the separator, the empty string when it has none; a file is
\* emitted only if that extension is not in exclude_extensions and
\* (include_extensions is empty or contains it); A.RS matches rs; a file with
\* no extension is excluded whenever include_extensions is non-empty and does
\* not contain the empty string; include rs keeps keep.rs and drops
\* ignore.py; exclude py on main.rs, script.py yields [main.rs].
C16_ExtensionFilters ==
    ScanDone =>
        /\ \A f \in Kept :
              PathRule(FullStr(f)) => (f \in ResultSet <=> ExtRule(f))
        /\ (/\ P(<<"A.RS">>) \in Kept
            /\ PathRule(FullStr(P(<<"A.RS">>)))
            /\ config.include_extensions = {B("rs")}
            /\ config.exclude_extensions = {})
              => P(<<"A.RS">>) \in ResultSet
        /\ (config.include_extensions # {} /\ B("") \notin config.include_extensions)
              => \A f \in ResultSet : extension(file_name(f)) # None
        /\ (<<tree, config>> = CliFiltering => ResultPaths = <<P(<<"keep.rs">>)>>)
        /\ (<<tree, config>> = ScenarioB => ResultPaths = <<P(<<"main.rs">>)>>)

\* A.RS was emitted under include_extensions = {rs}
C16_Witness ==
    /\ ScanDone
    /\ config.include_extensions = {B("rs")}
    /\ P(<<"A.RS">>) \in ResultSet

----------------------------------------------------------------------------
(* Claims on the walk *)

\* a directory above the file has a noise name, or the file has one
UnderNoiseDir(f) == \E k \in 1 .. (Len(f) - 1) : f[k] \in NOISE_DIRS
IsNoiseFile(f) == f[Len(f)] \in NOISE_FILES
\* a segment of the path starts with the hidden marker
HasHiddenSegment(f) == \E k \in 1 .. Len(f) : StartsWith(f[k], B("."))
\* a segment of the path is matched by the rule of an ignore file of the
\* tree that the default configuration applies: a `.ignore` file, and inside
\* a git work tree a `.gitignore` file or `.git/info/exclude`
HasIgnoredSegment(f) ==
    /\ \/ P(<<".ignore">>) \in tree.files
       \/ (in_git(tree) /\ P(<<".gitignore">>) \in tree.files)
       \/ (in_git(tree) /\ P(<<".git", "info", "exclude">>) \in tree.files)
    /\ \E k \in 1 .. Len(f) : EndsWith(f[k], B(".env"))

\* C17: the noise veto cannot be overridden: for every configuration
\* (include_hidden on or off, ignore files enabled or disabled, any
\* include_paths or include_extensions) scan emits no file that lies under a
\* directory whose name is in the noise-directory list and no file whose name
\* is in the noise-file list.
C17_NoiseNeverEmitted ==
    ScanDone => \A f \in ResultSet : ~UnderNoiseDir(f) /\ ~IsNoiseFile(f)

\* a scan with hidden files included and an include list that names its
\* extension has returned without the file under target/
C17_Witness ==
    /\ ScanDone
    /\ config.include_hidden
    /\ config.include_extensions = {B("rs")}
    /\ P(<<"target", "main.rs">>) \in tree.files
    /\ Reached(P(<<"target", "main.rs">>))

\* C18 as stated: when the root path does not exist or is entirely
\* unreadable scan returns an error, not a successful empty list, and this is
\* the only situation in which scan returns an error.
C18_BrokenRootIsAnError ==
    ScanDone => (~returned.ok <=> tree.root \in {"missing", "unreadable"})

\* C19: a traversal failure on a single entry below the root never aborts the
\* scan: the failing entry is skipped, the scan still returns success, and
\* the result contains, in sorted order, every other file that passes the
\* filters.
C19_EntryFailureSkipped ==
    (ScanDone /\ tree.failing # {}) =>
        /\ returned.ok
        /\ Len(ResultPaths) = Cardinality(ResultSet)
        /\ ResultSet = {f \in tree.files :
                          /\ Reached(f)
                          /\ Unfiltered(f)
                          /\ ExtRule(f)
                          /\ PathRule(FullStr(f))}
        /\ Sorted(ResultPaths)

\* a scan on a tree with a failing entry has returned other files
C19_Witness ==
    /\ ScanDone
    /\ tree.failing # {}
    /\ returned.ok
    /\ Len(returned.files) >= 2

\* the tree built from the returned records: path and kind of every node
BuiltNodes ==
    {<<n.path, n.is_dir>> : n \in Elems(BuildTree(returned.files).nodes)}

----------------------------------------------------------------------------
(* Claims on the ignore files and on the depth limit *)

\* a segment of the path is matched by the rule of some ignore file of the tree
MatchedByIgnoreFile(f) ==
    /\ \/ P(<<".ignore">>) \in tree.files
       \/ P(<<".gitignore">>) \in tree.files
       \/ P(<<".git", "info", "exclude">>) \in tree.files
    /\ \E k \in 1 .. Len(f) : EndsWith(f[k], B(".env"))
\* the file is deeper below the root than the configured limit
TooDeep(f) == config.max_depth # None /\ Len(f) > Unwrap(config.max_depth)
\* nothing but an ignore file stands between the file and the result
PassesAllButIgnore(f) ==
    /\ Reached(f)
    /\ ~UnderNoiseDir(f) /\ ~IsNoiseFile(f)
    /\ (config.include_hidden \/ ~HasHiddenSegment(f))
    /\ ~TooDeep(f)
    /\ ExtRule(f)
    /\ PathRule(FullStr(f))

\* C21 as stated: with ignore files enabled (the default) a file matched by
\* an ignore-file rule, such as secret.env under a .gitignore holding *.env,
\* is not emitted while unmatched files are; with ignore files disabled
\* (no_ignore) the same file is emitted.
C21_IgnoreFilePolicy ==
    ScanDone =>
        \A f \in tree.files :
            PassesAllButIgnore(f) =>
                (f \in ResultSet <=> (config.no_ignore \/ ~MatchedByIgnoreFile(f)))

\* a rule of an ignore file that the configuration leaves in force matches a
\* segment of the path
IgnoreApplies(f) ==
    /\ \/ (~config.no_ignore /\ P(<<".ignore">>) \in tree.files)
       \/ (~config.no_ignore /\ in_git(tree) /\ P(<<".gitignore">>) \in tree.files)
       \/ (in_git(tree) /\ P(<<".git", "info", "exclude">>) \in tree.files)
    /\ \E k \in 1 .. Len(f) : EndsWith(f[k], B(".env"))

\* C27: when max_depth is configured, scan emits no file whose depth below
\* the root (number of components of its relative path) exceeds max_depth,
\* and emits every file at depth at most max_depth that passes the other
\* filters; when max_depth is not configured there is no depth limit.
C27_DepthLimit ==
    ScanDone =>
        /\ config.max_depth # None
              => \A f \in ResultSet : Len(f) <= Unwrap(config.max_depth)
        /\ \A f \in tree.files :
              (/\ Reached(f)
               /\ ~UnderNoiseDir(f) /\ ~IsNoiseFile(f)
               /\ (config.include_hidden \/ ~HasHiddenSegment(f))
               /\ ~IgnoreApplies(f)
               /\ ExtRule(f)
               /\ PathRule(FullStr(f))
               /\ (config.max_depth = None \/ Len(f) <= Unwrap(config.max_depth)))
                  => f \in ResultSet

\* a scan limited to depth 1 has returned a file of the root and left out a
\* file one level below
C27_Witness ==
    /\ ScanDone
    /\ config = [DefaultConfig EXCEPT !.max_depth = Some(1)]
    /\ tree.failing = {}
    /\ P(<<"a", "y">>) \in tree.files
    /\ P(<<"a", "y">>) \notin ResultSet
    /\ \E f \in ResultSet : Len(f) = 1

----------------------------------------------------------------------------
(* Claims on the build of the tree *)

\* record i names a file that record j uses as a directory
FileAndPrefix(i, j) ==
    /\ files[i].relative_path # <<>>
    /\ IsProperPrefix(files[i].relative_path, files[j].relative_path)

\* C22 as stated: build rejects a record list in which one relative path is
\* both the terminal file of a record and a directory prefix of another
\* record: no tree is ever built from such a list, so no file node is turned
\* into a directory and dropped from the selected-file query.
C22_FileAndPrefixRejected ==
    pc = "run" =>
        \A i \in 1 .. Len(files), j \in 1 .. Len(files) : ~FileAndPrefix(i, j)

\* no record path is also a directory prefix of another record
WellFormed ==
    \A i \in 1 .. Len(files), j \in 1 .. Len(files) : ~FileAndPrefix(i, j)

\* the node's path is a directory prefix of some record
IsIntermediate(i) ==
    \E k \in 1 .. Len(files) : IsProperPrefix(PathOf(i), files[k].relative_path)

\* C26: in the tree built from a well-formed list (no path both a file and a
\* directory prefix) a node has is_dir = false exactly when its path is the
\* whole relative path of a record, and exactly when it has no children;
\* every node for an intermediate segment has is_dir = true and at least one
\* child.
C26_DirIffIntermediate ==
    (pc = "run" /\ WellFormed) =>
        \A i \in NodeIdx :
            /\ ~IsDir(i) <=> PathOf(i) \in RelativePaths
            /\ ~IsDir(i) <=> At(nodes, i).children = <<>>
            /\ IsIntermediate(i) => IsDir(i) /\ Len(At(nodes, i).children) >= 1

\* a well-formed list of three records under one directory with two files,
\* and a file at the top
C26_Witness ==
    /\ pc = "run"
    /\ WellFormed
    /\ Len(files) = 3
    /\ \E d \in NodeIdx :
          IsIntermediate(d) /\ IsDir(d) /\ Len(At(nodes, d).children) = 2
    /\ \E f \in NodeIdx : ~IsDir(f) /\ At(nodes, f).depth = 0

----------------------------------------------------------------------------
(* Claims on the session: what each operation touches *)

\* C23: toggle_expand negates the expanded flag of the node under the cursor
\* if and only if that node is a directory, and changes the expanded flag of
\* no other node (nor any other field, nor the cursor); on a file node it
\* changes nothing: no flag, no view entry, no cursor position.
C23_ToggleExpandLocal ==
    [][ToggleExpand =>
          IF Cursor # None /\ IsDir(CursorIdx)
          THEN /\ Len(nodes') = Len(nodes)
               /\ At(nodes', CursorIdx).expanded = ~IsExpanded(CursorIdx)
               /\ \A i \in NodeIdx \ {CursorIdx} : At(nodes', i) = At(nodes, i)
               /\ [At(nodes', CursorIdx) EXCEPT !.expanded = IsExpanded(CursorIdx)]
                     = At(nodes, CursorIdx)
               /\ list_state' = list_state
          ELSE UNCHANGED <<nodes, view_items, list_state>>]_vars

\* the directory under the cursor is collapsed, two other directories and
\* every other node are expanded as the build left them
C23_Witness ==
    /\ pc = "run"
    /\ Cursor # None
    /\ IsDir(CursorIdx) /\ ~IsExpanded(CursorIdx)
    /\ \A i \in NodeIdx \ {CursorIdx} : IsExpanded(i)
    /\ Cardinality({i \in NodeIdx \ {CursorIdx} : IsDir(i)}) >= 2
    /\ \E i \in Elems(view_items) : ~IsDir(i)

\* the position of a listed index in a list, and of a visible node in the view
PosIn(list, i) == CHOOSE k \in 1 .. Len(list) : list[k] = i
PosInView(i) == PosIn(view_items, i)
Visible == Elems(view_items)
\* the parent of a node that is not a root, and the list the node is listed in
HasParent(i) == \E p \in NodeIdx : i \in Elems(At(nodes, p).children)
ParentIdx(i) == CHOOSE p \in NodeIdx : i \in Elems(At(nodes, p).children)
SiblingList(i) == IF HasParent(i) THEN At(nodes, ParentIdx(i)).children ELSE root_indices
\* the siblings listed after i
LaterSiblings(i) ==
    {SiblingList(i)[k] : k \in (PosIn(SiblingList(i), i) + 1) .. Len(SiblingList(i))}

\* C24: the view is a pre-order depth-first traversal: the roots appear in
\* root order; every visible node that has a parent appears after the parent
\* and before the sibling that follows the parent; the visible children of a
\* node appear in the order of its children list; a node is directly
\* followed by all its visible descendants; no node appears twice.
C24_ViewIsPreorder ==
    pc # "new" =>
        /\ Cardinality(Visible) = Len(view_items)
        /\ \A k \in 1 .. Len(root_indices), l \in 1 .. Len(root_indices) :
              k < l =>
                 /\ {root_indices[k], root_indices[l]} \subseteq Visible
                 /\ PosInView(root_indices[k]) < PosInView(root_indices[l])
        /\ \A i \in Visible :
              HasParent(i) =>
                 /\ ParentIdx(i) \in Visible
                 /\ PosInView(ParentIdx(i)) < PosInView(i)
                 /\ \A s \in LaterSiblings(ParentIdx(i)) :
                       s \in Visible /\ PosInView(i) < PosInView(s)
        /\ \A p \in NodeIdx :
              \A k \in 1 .. Len(At(nodes, p).children),
                 l \in 1 .. Len(At(nodes, p).children) :
                 (/\ k < l
                  /\ At(nodes, p).children[k] \in Visible
                  /\ At(nodes, p).children[l] \in Visible)
                 => PosInView(At(nodes, p).children[k])
                       < PosInView(At(nodes, p).children[l])
        /\ \A i \in Visible :
              LET below == Descendants(i) \cap Visible
              IN  /\ PosInView(i) + Cardinality(below) <= Len(view_items)
                  /\ {view_items[k] :
                         k \in (PosInView(i) + 1) .. (PosInView(i) + Cardinality(below))}
                        = below

\* a view of three entries over four nodes: a root directory, its child,
\* then the next root, which is collapsed over a node the view skips
C24_Witness ==
    /\ pc = "run"
    /\ Len(root_indices) = 2
    /\ Len(view_items) = 3
    /\ \E i \in Visible :
          /\ HasParent(i)
          /\ LaterSiblings(ParentIdx(i)) # {}
          /\ PosInView(i) = 2
    /\ \E i \in NodeIdx : i \notin Visible /\ HasParent(i)

----------------------------------------------------------------------------
(* Claims on the tree built from a scan result *)

\* the tree App::new builds from the records a scan returned
BuiltTree == BuildTree(returned.files)
\* the root list and every children list of it
SiblingLists ==
    {BuiltTree.root_indices} \cup {n.children : n \in Elems(BuiltTree.nodes)}

\* C25: in the tree built from a list sorted as scan sorts it, the root list
\* and every children list are in strictly ascending byte-wise order of the
\* node names, so no name is repeated among siblings.
C25_SiblingsAscending ==
    ScanDone =>
        \A list \in SiblingLists :
            \A k \in 1 .. Len(list), l \in 1 .. Len(list) :
                k < l => BytesLess(At(BuiltTree.nodes, list[k]).name,
                                   At(BuiltTree.nodes, list[l]).name)

\* a scan has returned a/x, a/y and a-b/x: the roots are listed `a`, `a-b`
\* and directory `a` lists `x` before `y`
C25_Witness ==
    /\ ScanDone
    /\ ResultSet = {P(<<"a", "x">>), P(<<"a", "y">>), P(<<"a-b", "x">>)}
    /\ Len(BuiltTree.root_indices) = 2
    /\ At(BuiltTree.nodes, BuiltTree.root_indices[1]).name = B("a")
    /\ At(BuiltTree.nodes, BuiltTree.root_indices[2]).name = B("a-b")
    /\ LET a == At(BuiltTree.nodes, BuiltTree.root_indices[1])
       IN  /\ Len(a.children) = 2
           /\ At(BuiltTree.nodes, a.children[1]).name = B("x")
           /\ At(BuiltTree.nodes, a.children[2]).name = B("y")

----------------------------------------------------------------------------
(* Claims on what the session leaves alone *)

\* the fields of a node that the build fixes
Shape(n) ==
    [path |-> n.path, name |-> n.name, depth |-> n.depth,
     is_dir |-> n.is_dir, children |-> n.children]
Shapes(ns) == [k \in 1 .. Len(ns) |-> Shape(ns[k])]
SelectedFlags(ns) == [k \in 1 .. Len(ns) |-> ns[k].selected]
ExpandedFlags(ns) == [k \in 1 .. Len(ns) |-> ns[k].expanded]

\* a step of one of the operations of the interactive session
Interactive ==
    ToggleSelection \/ ToggleExpand \/ MoveUp \/ MoveDown \/ Confirm \/ Quit

\* C28: the tree is frozen after build: no operation of the session adds or
\* removes a node or changes a node's path, name, depth, is_dir or children
\* list (or the root list); the selected flags change only in
\* toggle_selection, the expanded flags and the view only in toggle_expand,
\* the cursor only in move_up and move_down.
C28_TreeFrozen ==
    [][Interactive =>
          /\ Shapes(nodes') = Shapes(nodes)
          /\ root_indices' = root_indices
          /\ SelectedFlags(nodes') # SelectedFlags(nodes) => ToggleSelection
          /\ ExpandedFlags(nodes') # ExpandedFlags(nodes) => ToggleExpand
          /\ view_items' # view_items => ToggleExpand
          /\ list_state' # list_state => (MoveUp \/ MoveDown)]_vars

\* a session in which each kind of operation has left its mark: a node is
\* deselected, a directory is collapsed over hidden nodes, the cursor has
\* moved, the session is confirmed
C28_Witness ==
    /\ pc = "run"
    /\ Len(nodes) = MaxNodes
    /\ \E i \in NodeIdx : ~IsSelected(i)
    /\ \E i \in NodeIdx : IsDir(i) /\ ~IsExpanded(i)
    /\ Len(view_items) < Len(nodes)
    /\ list_state # None /\ Unwrap(list_state) > 0
    /\ should_quit /\ confirmed

----------------------------------------------------------------------------
(* Claims on the outcome of the session (SpecMain) *)

\* run_tui has returned a set of selected paths
Handed ==
    /\ tui_result # None
    /\ Unwrap(tui_result).ok
    /\ Unwrap(tui_result).selected # None
\* run_tui has returned Ok(None)
Cancelled == tui_result = Some(TuiOk(None))

\* C29: the session hands a set of selected paths downstream only if it
\* ended by confirm, and only then is anything read; after a quit without
\* confirm the result is None and main returns without reading.  confirm
\* sets should_quit; should_quit and confirmed never go back to false; once
\* should_quit is set no operation changes the tree, the view, the cursor or
\* confirmed, so the set that is returned is the selection as it was at the
\* moment of confirm.
C29_SessionOutcome ==
    /\ [](Handed => confirmed)
    /\ [](read # None => Handed)
    /\ [](Cancelled => (~confirmed /\ read = None /\ pc = "exit"))
    /\ []((should_quit /\ ~confirmed) => (~Handed /\ read = None))
    /\ [][Confirm => (should_quit' /\ confirmed')]_vars
    /\ [][(should_quit => should_quit') /\ (confirmed => confirmed')]_vars
    /\ [][should_quit =>
             UNCHANGED <<nodes, root_indices, view_items, list_state, confirmed>>]_vars
    /\ [][(confirmed /\ Handed') =>
             tui_result' = Some(TuiOk(Some(get_selected_paths)))]_vars

\* a session ended by quit after a node was deselected: run_tui has returned
\* None, main has returned, nothing was read
C29_Witness ==
    /\ pc = "exit"
    /\ Cancelled
    /\ should_quit /\ ~confirmed
    /\ \E i \in NodeIdx : ~IsDir(i) /\ ~IsSelected(i)
    /\ \E i \in NodeIdx : ~IsDir(i) /\ IsSelected(i)
    /\ read = None

\* the record's node is a file node with selected = true
SelectedFileRecord(f) ==
    \E i \in NodeIdx : PathOf(i) = f.relative_path /\ ~IsDir(i) /\ IsSelected(i)

====
